---------------------------- MODULE Spec2Model ----------------------------
(* Model of falcon/request_helpers.py: parse_cookie_header, parse_etags   *)
(* and the BoundedStream wrapper around wsgi.input.                        *)
EXTENDS Integers, Sequences, FiniteSets, TLC

(**************************************************************************)
(* Bounds of the model.                                                   *)
(**************************************************************************)
\* largest declared stream length (stream_len) drawn at construction
MaxLen == 2
\* largest number of bytes the wrapped source actually holds
MaxSrc == 2
\* most negative size argument a caller passes
MaxNeg == 2
\* number of calls made on one stream
MaxCalls == 3
\* longest Cookie header enumerated character by character
MaxHeaderLen == 4
\* most cookie-pairs in a Cookie header put together from SamplePairs
MaxPairs == 3
\* longest entity-tag header enumerated character by character
MaxEtagLen == 4
\* most tags in an entity-tag header put together from SampleTags
MaxTags == 2

(**************************************************************************)
(* State.                                                                 *)
(**************************************************************************)
VARIABLES
    stream_len,        \* BoundedStream.stream_len
    bytes_remaining,   \* BoundedStream._bytes_remaining
    src_left,          \* bytes the wrapped stream still holds
    req_read,          \* sum of the sizes passed to stream.read
    req_lines,         \* sum of the sizes passed to stream.readline(s)
    lines_called,      \* readline or readlines has been called
    last_op,           \* the method that ran last
    last_arg,          \* the size argument the caller gave it
    last_size,         \* the size handed to the wrapped stream
    last_ret,          \* number of bytes the wrapped stream returned
    raised,            \* the exception the last call ended with
    short,             \* the source once returned fewer bytes than asked
    pc,                \* "idle", or "exhaust" inside the loop of exhaust
    chunk_size,        \* argument of the running exhaust
    ncalls,            \* calls made so far
    header_value,      \* argument of parse_cookie_header
    cookies,           \* its dict, as the list of [name, values] entries
    cookie_done,       \* parse_cookie_header has returned
    etag_str,          \* argument of parse_etags
    etag_result,       \* what parse_etags returned, or the error it raised
    etag_done          \* parse_etags has ended

streamVars == <<stream_len, bytes_remaining, src_left, req_read, req_lines,
                lines_called, last_op, last_arg, last_size, last_ret,
                raised, short, pc, chunk_size, ncalls>>

cookieVars == <<header_value, cookies, cookie_done>>

etagVars == <<etag_str, etag_result, etag_done>>

vars == <<streamVars, cookieVars, etagVars>>

(**************************************************************************)
(* Size arguments: Python's None or an int.                               *)
(**************************************************************************)
None == [given |-> FALSE, n |-> 0]

Int_(n) == [given |-> TRUE, n |-> n]

Sizes == {None} \cup {Int_(n) : n \in (0 - MaxNeg)..(MaxLen + 1)}

ChunkSizes == {Int_(n) : n \in (0 - MaxNeg)..(MaxLen + 1)}

Min(a, b) == IF a < b THEN a ELSE b

\* an absent header: etag_str is None
NoHeader == [given |-> FALSE, s |-> <<>>]

Header(s) == [given |-> TRUE, s |-> s]

NotRun == [status |-> "not run", none |-> FALSE, etags |-> <<>>]

\* _read without the upper clamp: an oversized request goes through
ClampSize_NoUpper(size, remaining) ==
    IF ~size.given THEN remaining
    ELSE IF size.n = -1 THEN remaining
    ELSE size.n

(**************************************************************************)
(* BoundedStream._read, lines 235-236: the size handed to the target.     *)
(**************************************************************************)
ClampSize(size, remaining) ==
    IF ~size.given THEN remaining
    ELSE IF size.n = -1 \/ size.n > remaining THEN remaining
    ELSE size.n

\* BoundedStream._read, line 238
Reserve(remaining, size) == remaining - size

\* BoundedStream.is_exhausted, line 317
is_exhausted == bytes_remaining <= 0

(**************************************************************************)
(* The wrapped stream: asked for size bytes it returns at most that many, *)
(* at most what it holds; a negative size asks for everything it holds.   *)
(**************************************************************************)
SourceReturns(size, left) ==
    IF size < 0 THEN 0..left ELSE 0..Min(size, left)

FullReturn(size, left, n) ==
    IF size < 0 THEN n = left ELSE n = size

ReadOps == {"read", "readline", "readlines"}

\* BoundedStream.__init__
InitStream ==
    /\ stream_len \in 0..MaxLen
    /\ bytes_remaining = stream_len
    /\ src_left \in 0..MaxSrc
    /\ req_read = 0
    /\ req_lines = 0
    /\ lines_called = FALSE
    /\ last_op = "init"
    /\ last_arg = None
    /\ last_size = 0
    /\ last_ret = 0
    /\ raised = "none"
    /\ short = FALSE
    /\ pc = "idle"
    /\ chunk_size = None
    /\ ncalls = 0
    /\ header_value = <<>>
    /\ cookies = <<>>
    /\ cookie_done = FALSE
    /\ etag_str = NoHeader
    /\ etag_result = NotRun
    /\ etag_done = FALSE

\* _read that gives the reservation back when the target raises
DoRead_Rollback(op, arg) ==
    LET size == ClampSize(arg, bytes_remaining) IN
    /\ last_arg' = arg
    /\ last_size' = size
    /\ req_read' = IF op = "read" THEN req_read + size ELSE req_read
    /\ req_lines' = IF op = "read" THEN req_lines ELSE req_lines + size
    /\ lines_called' = (lines_called \/ op # "read")
    /\ \/ \E n \in SourceReturns(size, src_left) :
            /\ bytes_remaining' = Reserve(bytes_remaining, size)
            /\ last_ret' = n
            /\ src_left' = src_left - n
            /\ raised' = "none"
            /\ short' = (short \/ ~FullReturn(size, src_left, n))
       \/ /\ bytes_remaining' = bytes_remaining
          /\ last_ret' = -1
          /\ raised' = "source"
          /\ UNCHANGED <<src_left, short>>

(**************************************************************************)
(* _read(size, target): clamp, reserve, then call the target, which       *)
(* returns n bytes or raises.                                             *)
(**************************************************************************)
DoRead(op, arg) ==
    LET size == ClampSize(arg, bytes_remaining) IN
    /\ bytes_remaining' = Reserve(bytes_remaining, size)
    /\ last_arg' = arg
    /\ last_size' = size
    /\ req_read' = IF op = "read" THEN req_read + size ELSE req_read
    /\ req_lines' = IF op = "read" THEN req_lines ELSE req_lines + size
    /\ lines_called' = (lines_called \/ op # "read")
    /\ \/ \E n \in SourceReturns(size, src_left) :
            /\ last_ret' = n
            /\ src_left' = src_left - n
            /\ raised' = "none"
            /\ short' = (short \/ ~FullReturn(size, src_left, n))
       \/ /\ last_ret' = -1
          /\ raised' = "source"
          /\ UNCHANGED <<src_left, short>>

\* BoundedStream.read / readline / readlines
Read(op, arg) ==
    /\ pc = "idle"
    /\ ncalls < MaxCalls
    /\ ncalls' = ncalls + 1
    /\ last_op' = op
    /\ DoRead(op, arg)
    /\ UNCHANGED <<stream_len, pc, chunk_size>>
    /\ UNCHANGED <<cookieVars, etagVars>>

\* a write that is handed on to the wrapped stream instead of refused
WriteThrough ==
    /\ pc = "idle"
    /\ ncalls < MaxCalls
    /\ ncalls' = ncalls + 1
    /\ last_op' = "write"
    /\ raised' = "none"
    /\ bytes_remaining' = bytes_remaining - 1
    /\ UNCHANGED <<stream_len, src_left, req_read, req_lines,
                   lines_called, last_arg, last_size, last_ret, short, pc,
                   chunk_size>>
    /\ UNCHANGED <<cookieVars, etagVars>>

\* BoundedStream.write
Write ==
    /\ pc = "idle"
    /\ ncalls < MaxCalls
    /\ ncalls' = ncalls + 1
    /\ last_op' = "write"
    /\ raised' = "IOError"
    /\ UNCHANGED <<stream_len, bytes_remaining, src_left, req_read, req_lines,
                   lines_called, last_arg, last_size, last_ret, short, pc,
                   chunk_size>>
    /\ UNCHANGED <<cookieVars, etagVars>>

\* BoundedStream.exhaust: entry
ExhaustCall(c) ==
    /\ pc = "idle"
    /\ ncalls < MaxCalls
    /\ ncalls' = ncalls + 1
    /\ pc' = "exhaust"
    /\ chunk_size' = c
    /\ last_op' = "exhaust_call"
    /\ raised' = "none"
    /\ UNCHANGED <<stream_len, bytes_remaining, src_left, req_read, req_lines,
                   lines_called, last_arg, last_size, last_ret, short>>
    /\ UNCHANGED <<cookieVars, etagVars>>

\* BoundedStream.exhaust: one turn of the loop, chunk = self.read(chunk_size)
ExhaustStep ==
    /\ pc = "exhaust"
    /\ DoRead("read", chunk_size)
    /\ last_op' = IF last_ret' <= 0 THEN "exhaust_done" ELSE "exhaust"
    /\ pc' = IF last_ret' <= 0 THEN "idle" ELSE "exhaust"
    /\ chunk_size' = IF last_ret' <= 0 THEN None ELSE chunk_size
    /\ UNCHANGED <<stream_len, ncalls>>
    /\ UNCHANGED <<cookieVars, etagVars>>

NextStream ==
    \/ \E op \in ReadOps, arg \in Sizes : Read(op, arg)
    \/ Write
    \/ \E c \in ChunkSizes : ExhaustCall(c)
    \/ ExhaustStep

SpecStream == InitStream /\ [][NextStream]_vars


(**************************************************************************)
(* Strings are sequences of one-character strings.                        *)
(**************************************************************************)
QUOTE == "\""

BACKSLASH == "\\"

\* representatives of the code points 0x7F-0xFF
DEL == "\\x7f"

E_ACUTE == "\\xe9"

\* what str.strip() removes
Whitespace == {" ", "\t", "\n", "\r", "\f"}

\* the character class of _COOKIE_NAME_RESERVED_CHARS
COOKIE_NAME_RESERVED_CHARS ==
    {"\t", "\n", "\r", "\f", DEL, E_ACUTE}
        \cup {"(", ")", "<", ">", "@", ",", ";", ":", BACKSLASH, QUOTE,
              "/", "[", "]", "?", "=", "{", "}", " "}

Range(s) == {s[i] : i \in DOMAIN s}

\* index of the first c in s, 0 when there is none
RECURSIVE FindFrom(_, _, _)
FindFrom(s, c, i) ==
    IF i > Len(s) THEN 0
    ELSE IF s[i] = c THEN i
    ELSE FindFrom(s, c, i + 1)

\* str.split(sep)
RECURSIVE Split(_, _)
Split(s, sep) ==
    LET i == FindFrom(s, sep, 1) IN
    IF i = 0 THEN <<s>>
    ELSE <<SubSeq(s, 1, i - 1)>> \o Split(SubSeq(s, i + 1, Len(s)), sep)

\* str.partition(sep): the part before the first sep and the part after it
Partition(s, sep) ==
    LET i == FindFrom(s, sep, 1) IN
    IF i = 0 THEN [name |-> s, value |-> <<>>]
    ELSE [name |-> SubSeq(s, 1, i - 1), value |-> SubSeq(s, i + 1, Len(s))]

RECURSIVE LStrip(_)
LStrip(s) ==
    IF s # <<>> /\ Head(s) \in Whitespace THEN LStrip(Tail(s)) ELSE s

RECURSIVE RStrip(_)
RStrip(s) ==
    IF s # <<>> /\ s[Len(s)] \in Whitespace
    THEN RStrip(SubSeq(s, 1, Len(s) - 1))
    ELSE s

\* str.strip()
Strip(s) == RStrip(LStrip(s))

\* _COOKIE_NAME_RESERVED_CHARS.search(name), that misses the space
ReservedSearch_NoSpace(name) ==
    \E i \in DOMAIN name : name[i] \in COOKIE_NAME_RESERVED_CHARS \ {" "}

\* _COOKIE_NAME_RESERVED_CHARS.search(name)
ReservedSearch(name) ==
    \E i \in DOMAIN name : name[i] \in COOKIE_NAME_RESERVED_CHARS

\* http_cookies._unquote on the text between the quotes: a backslash and
\* the character after it become that character (the inputs hold no digits,
\* so no octal escape arises)
RECURSIVE Unescape(_)
Unescape(s) ==
    IF s = <<>> THEN <<>>
    ELSE IF Head(s) = BACKSLASH /\ Len(s) >= 2 /\ s[2] # "\n"
    THEN <<s[2]>> \o Unescape(SubSeq(s, 3, Len(s)))
    ELSE <<Head(s)>> \o Unescape(Tail(s))

\* http_cookies._unquote
Unquote(value) ==
    IF Len(value) < 2 THEN value
    ELSE IF value[1] # QUOTE \/ value[Len(value)] # QUOTE THEN value
    ELSE Unescape(SubSeq(value, 2, Len(value) - 1))

\* parse_cookie_header, lines 82-83
CookieValue(value) ==
    IF Len(value) > 2 /\ value[1] = QUOTE /\ value[Len(value)] = QUOTE
    THEN Unquote(value)
    ELSE value

\* position of name among the keys of the dict, 0 when it is no key
RECURSIVE KeyIndex(_, _, _)
KeyIndex(d, name, i) ==
    IF i > Len(d) THEN 0
    ELSE IF d[i].name = name THEN i
    ELSE KeyIndex(d, name, i + 1)

\* a store that replaces the values of a name seen before
Store_Overwrite(d, name, value) ==
    LET i == KeyIndex(d, name, 1) IN
    IF i # 0
    THEN [d EXCEPT ![i].values = <<value>>]
    ELSE Append(d, [name |-> name, values |-> <<value>>])

\* parse_cookie_header, lines 87-90
Store(d, name, value) ==
    LET i == KeyIndex(d, name, 1) IN
    IF i # 0
    THEN [d EXCEPT ![i].values = Append(@, value)]
    ELSE Append(d, [name |-> name, values |-> <<value>>])

\* parse_cookie_header, the body of the loop, lines 57-90
CookieToken(d, token) ==
    LET parts == Partition(token, "=")
        name  == Strip(parts.name)
        value == Strip(parts.value)
    IN  IF name = <<>> THEN d
        ELSE IF ReservedSearch(name) THEN d
        ELSE Store(d, name, CookieValue(value))

RECURSIVE CookieLoop(_, _, _)
CookieLoop(d, tokens, i) ==
    IF i > Len(tokens) THEN d
    ELSE CookieLoop(CookieToken(d, tokens[i]), tokens, i + 1)

\* parse_cookie_header
parse_cookie_header(h) == CookieLoop(<<>>, Split(h, ";"), 1)

(**************************************************************************)
(* Cookie headers the parser is run on: every string of at most           *)
(* MaxHeaderLen characters of CookieChars, and every header of at most    *)
(* MaxPairs of the SamplePairs joined by ";".                             *)
(**************************************************************************)
CookieChars == {"a", "b", "=", ";", " ", QUOTE, BACKSLASH}

SamplePairs ==
    { <<"a", "=", "x">>,
      <<"a", "=", "y">>,
      <<"b", "=", "x">>,
      <<" ", "a", " ", "=", " ", "y", " ">>,
      <<"a">>,
      <<"=", "x">>,
      <<"a", " ", "b", "=", "x">>,
      <<"a", "@", "=", "x">>,
      <<"a", DEL, "=", "x">>,
      <<"\t", "b", "=", QUOTE, "x", QUOTE>>,
      <<"a", "=", QUOTE, QUOTE>>,
      <<"a", "=", QUOTE, BACKSLASH, QUOTE, "x", QUOTE>>,
      <<"b", "=", QUOTE, "x", BACKSLASH, QUOTE>>,
      <<"a", "=", "x", "=", "y">>,
      <<"b", "=", QUOTE>> }

RECURSIVE JoinPairs(_)
JoinPairs(ps) ==
    IF ps = <<>> THEN <<>>
    ELSE IF Len(ps) = 1 THEN ps[1]
    ELSE ps[1] \o <<";">> \o JoinPairs(Tail(ps))

CookieHeaders ==
    UNION {[1..k -> CookieChars] : k \in 0..MaxHeaderLen}
        \cup {JoinPairs(ps) : ps \in UNION {[1..k -> SamplePairs] : k \in 1..MaxPairs}}

IdleStream ==
    /\ stream_len = 0
    /\ bytes_remaining = 0
    /\ src_left = 0
    /\ req_read = 0
    /\ req_lines = 0
    /\ lines_called = FALSE
    /\ last_op = "init"
    /\ last_arg = None
    /\ last_size = 0
    /\ last_ret = 0
    /\ raised = "none"
    /\ short = FALSE
    /\ pc = "idle"
    /\ chunk_size = None
    /\ ncalls = 0

InitCookie ==
    /\ header_value \in CookieHeaders
    /\ cookies = <<>>
    /\ cookie_done = FALSE
    /\ etag_str = NoHeader
    /\ etag_result = NotRun
    /\ etag_done = FALSE
    /\ IdleStream

\* a call of parse_cookie_header(header_value)
ParseCookies ==
    /\ ~cookie_done
    /\ cookies' = parse_cookie_header(header_value)
    /\ cookie_done' = TRUE
    /\ UNCHANGED header_value
    /\ UNCHANGED <<streamVars, etagVars>>

NextCookie == ParseCookies

SpecCookie == InitCookie /\ [][NextCookie]_vars


(**************************************************************************)
(* _ETAG_PATTERN = ([Ww]/)?(?:"(.*?)"|(.*?))(?:\s*,\s*|$), matched the    *)
(* way a backtracking matcher does: the prefix before no prefix, the      *)
(* quoted alternative before the raw one, the shortest run first.         *)
(**************************************************************************)
\* what \s matches
RegexSpace == {" ", "\t", "\n", "\r", "\f"}

\* the first position at or after i that holds no \s character
RECURSIVE SkipSpace(_, _)
SkipSpace(s, i) ==
    IF i <= Len(s) /\ s[i] \in RegexSpace THEN SkipSpace(s, i + 1) ELSE i

\* $ : the end of the string, or just before a line break that ends it
AtDollar(s, i) ==
    \/ i = Len(s) + 1
    \/ i = Len(s) /\ s[i] = "\n"

\* (?:\s*,\s*|$) at position i: the position after it, 0 when it fails
\* (the greedy \s* can only succeed having taken every space)
Separator(s, i) ==
    LET j == SkipSpace(s, i) IN
    IF j <= Len(s) /\ s[j] = "," THEN SkipSpace(s, j + 1)
    ELSE IF AtDollar(s, i) THEN i
    ELSE 0

\* . matches everything but a line break
DotRun(s, p, k) == \A i \in p..(p + k - 1) : i <= Len(s) /\ s[i] # "\n"

SetMin(S) == CHOOSE x \in S : \A y \in S : x <= y

NoMatch == [matched |-> FALSE]

\* (?:"(.*?)"|(.*?))(?:\s*,\s*|$) at position p
MatchBody(s, p, prefixed) ==
    LET n == Len(s)
        quotedKs == {k \in 0..n :
                        /\ p <= n /\ s[p] = QUOTE
                        /\ p + k + 1 <= n
                        /\ DotRun(s, p + 1, k)
                        /\ s[p + k + 1] = QUOTE
                        /\ Separator(s, p + k + 2) # 0}
        rawKs == {k \in 0..n :
                        /\ p + k <= n + 1
                        /\ DotRun(s, p, k)
                        /\ Separator(s, p + k) # 0}
    IN  IF quotedKs # {}
        THEN LET k == SetMin(quotedKs) IN
             [matched |-> TRUE, is_weak |-> prefixed,
              quoted |-> [group |-> TRUE, text |-> SubSeq(s, p + 1, p + k)],
              raw |-> [group |-> FALSE, text |-> <<>>],
              end |-> Separator(s, p + k + 2)]
        ELSE IF rawKs # {}
        THEN LET k == SetMin(rawKs) IN
             [matched |-> TRUE, is_weak |-> prefixed,
              quoted |-> [group |-> FALSE, text |-> <<>>],
              raw |-> [group |-> TRUE, text |-> SubSeq(s, p, p + k - 1)],
              end |-> Separator(s, p + k)]
        ELSE NoMatch

\* _ETAG_PATTERN.match(etag_str, pos), pos counted from 1
EtagMatch(s, pos) ==
    LET hasPrefix == /\ pos + 1 <= Len(s)
                     /\ s[pos] \in {"W", "w"}
                     /\ s[pos + 1] = "/"
        withPrefix == IF hasPrefix THEN MatchBody(s, pos + 2, TRUE)
                      ELSE NoMatch
    IN  IF withPrefix.matched THEN withPrefix
        ELSE MatchBody(s, pos, FALSE)

\* make_etag
make_etag(value, is_weak) ==
    [value |-> value, is_weak |-> is_weak, type |-> "ETag"]

\* value = quoted or raw, line 173: None when both are empty or unmatched
QuotedOrRaw(m) ==
    IF m.quoted.group /\ m.quoted.text # <<>> THEN m.quoted.text
    ELSE m.raw.text

\* parse_etags, the loop of lines 170-176; match is None where the pattern
\* does not match, and match.groups() then raises AttributeError
RECURSIVE EtagScan(_, _, _)
EtagScan(s, pos, etags) ==
    IF pos > Len(s)
    THEN [status |-> "returned", none |-> FALSE, etags |-> etags]
    ELSE LET m == EtagMatch(s, pos) IN
         IF ~m.matched
         THEN [status |-> "AttributeError", none |-> FALSE, etags |-> <<>>]
         ELSE IF m.end = pos
         THEN [status |-> "no progress", none |-> FALSE, etags |-> <<>>]
         ELSE LET value == QuotedOrRaw(m) IN
              EtagScan(s, m.end,
                       IF value # <<>>
                       THEN Append(etags, make_etag(value, m.is_weak))
                       ELSE etags)

\* parse_etags, lines 159-166: a header without a comma
SingleEtag(s) ==
    LET weak == Len(s) >= 2 /\ s[1] \in {"W", "w"} /\ s[2] = "/"
        v    == IF weak THEN SubSeq(s, 3, Len(s)) ELSE s
        unq  == IF v # <<>> /\ v[1] = QUOTE /\ v[Len(v)] = QUOTE
                THEN SubSeq(v, 2, Len(v) - 1)
                ELSE v
    IN  make_etag(unq, weak)

\* parse_etags
parse_etags(h) ==
    IF ~h.given
    THEN [status |-> "returned", none |-> TRUE, etags |-> <<>>]
    ELSE LET s == Strip(h.s) IN
         IF s = <<>>
         THEN [status |-> "returned", none |-> FALSE, etags |-> <<>>]
         ELSE IF s = <<"*">>
         THEN [status |-> "returned", none |-> FALSE,
               etags |-> <<[value |-> s, is_weak |-> FALSE, type |-> "str"]>>]
         ELSE IF "," \notin Range(s)
         THEN [status |-> "returned", none |-> FALSE,
               etags |-> <<SingleEtag(s)>>]
         ELSE EtagScan(s, 1, <<>>)

(**************************************************************************)
(* Entity-tag headers the parser is run on: no header, every string of at *)
(* most MaxEtagLen characters of EtagChars, and every list of at most     *)
(* MaxTags of the SampleTags joined by a comma.                           *)
(**************************************************************************)
EtagChars == {"W", "/", QUOTE, ",", " ", "\n", "a"}

SampleTags ==
    { <<QUOTE, "a", QUOTE>>,
      <<"W", "/", QUOTE, "b", QUOTE>>,
      <<"w", "/", "a">>,
      <<" ", QUOTE, "c", QUOTE, " ">>,
      <<>>,
      <<QUOTE, QUOTE>>,
      <<"a", "\n", "b">>,
      <<QUOTE, "a", QUOTE, "b">>,
      <<"W", "/">>,
      <<"*">>,
      <<QUOTE, "a", "\n", QUOTE>>,
      <<"a", " ", "b">> }

RECURSIVE JoinTags(_)
JoinTags(ts) ==
    IF ts = <<>> THEN <<>>
    ELSE IF Len(ts) = 1 THEN ts[1]
    ELSE ts[1] \o <<",">> \o JoinTags(Tail(ts))

EtagHeaders ==
    {NoHeader}
        \cup {Header(s) : s \in UNION {[1..k -> EtagChars] : k \in 0..MaxEtagLen}}
        \cup {Header(JoinTags(ts)) :
                ts \in UNION {[1..k -> SampleTags] : k \in 1..MaxTags}}

InitEtag ==
    /\ etag_str \in EtagHeaders
    /\ etag_result = NotRun
    /\ etag_done = FALSE
    /\ header_value = <<>>
    /\ cookies = <<>>
    /\ cookie_done = FALSE
    /\ IdleStream

\* a call of parse_etags(etag_str)
ParseEtags ==
    /\ ~etag_done
    /\ etag_result' = parse_etags(etag_str)
    /\ etag_done' = TRUE
    /\ UNCHANGED etag_str
    /\ UNCHANGED <<streamVars, cookieVars>>

NextEtag == ParseEtags

SpecEtag == InitEtag /\ [][NextEtag]_vars

(**************************************************************************)
(* Properties of parse_cookie_header.                                     *)
(**************************************************************************)
\* the cookie-pairs of the header
Pairs == Split(header_value, ";")

\* position of the first "=" of a cookie-pair, 0 when it has none
EqPos(t) ==
    IF "=" \in Range(t)
    THEN SetMin({i \in DOMAIN t : t[i] = "="})
    ELSE 0

\* the trimmed name of a cookie-pair
PairName(t) ==
    Strip(IF EqPos(t) = 0 THEN t ELSE SubSeq(t, 1, EqPos(t) - 1))

\* the trimmed value of a cookie-pair: empty without "=", else all that
\* follows the first "="
PairValue(t) ==
    IF EqPos(t) = 0 THEN <<>> ELSE Strip(SubSeq(t, EqPos(t) + 1, Len(t)))

\* the characters a cookie name may not hold
NameReserved ==
    {"\t", "\n", "\r", "\f"} \cup {DEL, E_ACUTE} \cup {" "}
        \cup {"(", ")", "<", ">", "@", ",", ";", ":", BACKSLASH, QUOTE,
              "/", "[", "]", "?", "=", "{", "}"}

ValidName(name) == name # <<>> /\ Range(name) \cap NameReserved = {}

ValidPair(t) == ValidName(PairName(t))

\* positions of the accepted cookie-pairs called name, in header order
PairsNamed(name) ==
    {i \in DOMAIN Pairs : ValidPair(Pairs[i]) /\ PairName(Pairs[i]) = name}

\* the k-th smallest member of a set of positions
Kth(S, k) == CHOOSE i \in S : Cardinality({j \in S : j <= i}) = k

Keys == {cookies[e].name : e \in DOMAIN cookies}

\* C5: each name is a key once; the keys are the names of the accepted
\* cookie-pairs; the values of a name are the trimmed (or unquoted) values
\* of the accepted pairs of that name, in header order, a pair without "="
\* giving the empty value and a value keeping what follows its first "=".
C5_ValuesInHeaderOrder ==
    cookie_done =>
        /\ \A e, f \in DOMAIN cookies :
              e # f => cookies[e].name # cookies[f].name
        /\ Keys = {PairName(Pairs[i]) :
                      i \in {j \in DOMAIN Pairs : ValidPair(Pairs[j])}}
        /\ \A e \in DOMAIN cookies :
              LET at == PairsNamed(cookies[e].name)
                  vs == cookies[e].values
              IN  /\ Len(vs) = Cardinality(at)
                  /\ \A k \in DOMAIN vs :
                        LET v == PairValue(Pairs[Kth(at, k)]) IN
                        vs[k] \in {v, Unquote(v)}

\* C5 witness: a name sent three times with differing values, one of them
\* from a pair without "=".
C5_Witness ==
    /\ cookie_done
    /\ \E e \in DOMAIN cookies :
          /\ Len(cookies[e].values) = 3
          /\ cookies[e].values[1] # cookies[e].values[2]
          /\ cookies[e].values[3] = <<>>
          /\ \E i \in PairsNamed(cookies[e].name) : EqPos(Pairs[i]) = 0

ValidPairs == SelectSeq(Pairs, ValidPair)

\* C6: no key is empty or holds a reserved character, and the result is
\* the one the header gives with the pairs of such names taken out.
C6_NoReservedKeys ==
    cookie_done =>
        /\ \A name \in Keys : ValidName(name)
        /\ cookies = CookieLoop(<<>>, ValidPairs, 1)

\* C6 witness: a pair whose name holds a reserved character was dropped
\* between two pairs that were kept.
C6_Witness ==
    /\ cookie_done
    /\ \E i, j, k \in DOMAIN Pairs :
          /\ i < j /\ j < k
          /\ ValidPair(Pairs[i]) /\ ValidPair(Pairs[k])
          /\ PairName(Pairs[j]) # <<>> /\ ~ValidPair(Pairs[j])
    /\ Len(cookies) >= 1

\* the value C7 says is stored for a trimmed value
QuotedValue(v) ==
    IF Len(v) >= 2 /\ v[1] = QUOTE /\ v[Len(v)] = QUOTE
    THEN Unescape(SubSeq(v, 2, Len(v) - 1))
    ELSE v

\* C7: a trimmed value of at least 2 characters that starts and ends with
\* a double quote is stored unquoted, every other value verbatim.
C7_QuotedValuesUnquoted ==
    cookie_done =>
        \A e \in DOMAIN cookies :
            LET at == PairsNamed(cookies[e].name)
                vs == cookies[e].values
            IN  \A k \in DOMAIN vs :
                    k <= Cardinality(at)
                        => vs[k] = QuotedValue(PairValue(Pairs[Kth(at, k)]))

(**************************************************************************)
(* Properties of parse_etags.                                             *)
(**************************************************************************)
\* C4: for every string parse_etags returns a list and raises nothing; in
\* a comma-separated header it stops where no token matches and every
\* matched token moves the scan forward.
C4_ParseEtagsTotal ==
    (etag_done /\ etag_str.given)
        => (etag_result.status = "returned" /\ ~etag_result.none)

\* the tag of the token matched at pos: the text between the quotes of a
\* quoted token, the raw run otherwise; weak with a W/ or w/ prefix
TokenText(m) == IF m.quoted.group THEN m.quoted.text ELSE m.raw.text

TokenWeak(s, pos) ==
    pos + 1 <= Len(s) /\ s[pos] \in {"W", "w"} /\ s[pos + 1] = "/"

\* one tag for each matched token of non-empty text, in encounter order
RECURSIVE TokenTags(_, _)
TokenTags(s, pos) ==
    IF pos > Len(s) THEN <<>>
    ELSE LET m == EtagMatch(s, pos) IN
         IF ~m.matched \/ m.end <= pos THEN <<>>
         ELSE (IF TokenText(m) = <<>> THEN <<>>
               ELSE <<[value |-> TokenText(m), is_weak |-> TokenWeak(s, pos),
                       type |-> "ETag"]>>)
              \o TokenTags(s, m.end)

\* C8: for a header holding a comma parse_etags returns one tag for each
\* matched token of non-empty text, in encounter order, duplicates kept.
C8_TagPerToken ==
    (etag_done /\ etag_str.given /\ "," \in Range(Strip(etag_str.s)))
        => /\ etag_result.status = "returned"
           /\ etag_result.etags = TokenTags(Strip(etag_str.s), 1)

(**************************************************************************)
(* Properties of BoundedStream.                                           *)
(**************************************************************************)

ReadSteps == ReadOps \cup {"exhaust", "exhaust_done"}

\* C2: once bytes_remaining is 0, every later read leaves the stream
\* exhausted and passes size 0 to the source, whatever its size argument.
C2_ExhaustedStays ==
    [][(bytes_remaining = 0 /\ last_op' \in ReadSteps)
          => (is_exhausted' /\ last_size' = 0)]_vars

\* C3: exhaust, with any integer chunk_size and a source that returns what
\* it is asked for, returns with the stream exhausted and exactly
\* stream_len bytes requested over the stream's lifetime.
C3_ExhaustDrains ==
    (last_op = "exhaust_done" /\ raised = "none" /\ ~short)
        => (is_exhausted /\ req_read + req_lines = stream_len)

\* C9: write raises IOError in every state and changes neither the byte
\* accounting nor the wrapped stream.
C9_WriteFails ==
    [][last_op' = "write"
          => /\ raised' = "IOError"
             /\ bytes_remaining' = bytes_remaining
             /\ is_exhausted' = is_exhausted
             /\ src_left' = src_left
             /\ req_read' = req_read
             /\ req_lines' = req_lines]_vars

\* C9 witness: a write on a stream that earlier reads exhausted.
C9_Witness ==
    /\ last_op = "write"
    /\ raised = "IOError"
    /\ stream_len > 0
    /\ is_exhausted

\* C10: read, readline and readlines clamp alike (None or an oversized
\* size becomes bytes_remaining, a size within the budget is kept) and
\* bytes_remaining drops by exactly the size handed to the source, whether
\* the source returns in full, returns short or raises.
C10_ReservedBeforeCall ==
    [][last_op' \in ReadOps
          => /\ bytes_remaining' = bytes_remaining - last_size'
             /\ last_size' <= bytes_remaining
             /\ (~last_arg'.given => last_size' = bytes_remaining)
             /\ (last_arg'.given /\ last_arg'.n > bytes_remaining
                    => last_size' = bytes_remaining)
             /\ (last_arg'.given /\ last_arg'.n >= 0
                   /\ last_arg'.n <= bytes_remaining
                    => last_size' = last_arg'.n)]_vars

\* C10 witness: a readline whose source raised after the reservation.
C10_Witness ==
    /\ last_op = "readline"
    /\ raised = "source"
    /\ last_size > 0
    /\ bytes_remaining = stream_len - last_size

=============================================================================
